---- MODULE Spec2Model ----
(***************************************************************************)
(* osc-mcp: the build-log parser of internal/pkg/buildlog (ParseLog and    *)
(* its helpers), modelled as the state machine its scanning loop is.       *)
(*                                                                         *)
(* A log line is abstracted to what the parser's regular expressions can   *)
(* see of it:                                                              *)
(*   ts     the N of a leading "[ Ns]" token, NoTime when there is none    *)
(*   sig    the index (1..11) of the phase matcher whose text the line     *)
(*          carries, 0 when it carries none (the matchers 1..11 are        *)
(*          mutually exclusive: each is anchored and continues with a      *)
(*          different literal)                                             *)
(*   meta   the four captures of buildInfoRegex, NoMeta when no match      *)
(*   marker "colon": the line contains "error:" or "failed:" in any case;  *)
(*          "token": it contains the bare word ERROR or FAILED;            *)
(*          "none": neither                                                *)
(*   long   the line is 64 KiB or longer, the size at which a default      *)
(*          bufio.Scanner gives up (bufio.ErrTooLong)                      *)
(*   text   other text of the line that none of ParseLog's regular         *)
(*          expressions matches: "" or a word naming it                    *)
(***************************************************************************)
EXTENDS Integers, Sequences, FiniteSets, TLC

\* ---------------------------------------------------------------- bounds
MaxLines == 3          \* lines of an input log
MaxTime == 1           \* largest N of a "[Ns]" token
MaxReparseLines == 2   \* longest log that is parsed a second time

\* ------------------------------------------------------- BuildPhase (iota)
Header == 0
Preinstall == 1
CopyingPackages == 2
VMBoot == 3
PackageCumulation == 4
PackageInstallation == 5
Build == 6
PostBuildChecks == 7
RPMLintReport == 8
PackageComparison == 9
Summary == 10
Retries == 11

\* len(phaseMatches)
NumPhases == Retries + 1

\* ------------------------------------------------------------------ lines
\* extractTime's "0, false"
NoTime == -1

NoMeta == [name |-> "", project |-> "", distro |-> "", arch |-> ""]
MetaA == [name |-> "gflags", project |-> "home:a", distro |-> "16.0", arch |-> "aarch64"]
MetaB == [name |-> "dolly", project |-> "home:b", distro |-> "15.6", arch |-> "x86_64"]

Line(t, s, m, k, l) ==
    [ts |-> t, sig |-> s, meta |-> m, marker |-> k, long |-> l, text |-> ""]

\* A line of 64 KiB or more: the scanner never delivers it.
LongLine == Line(NoTime, 0, NoMeta, "none", TRUE)

\* The lines a scanner can deliver. The matchers 1..10 require the "[Ns] "
\* prefix, the Retries matcher requires the line to start with "Retried".
ShortLines ==
    {Line(t, s, NoMeta, "none", FALSE) : t \in 0..MaxTime, s \in Preinstall..Summary}
    \cup {Line(NoTime, Retries, NoMeta, "none", FALSE)}
    \cup {Line(t, 0, NoMeta, "none", FALSE) : t \in {NoTime} \cup 0..MaxTime}
    \cup {Line(NoTime, 0, m, "none", FALSE) : m \in {MetaA, MetaB}}
    \cup {Line(NoTime, 0, NoMeta, k, FALSE) : k \in {"colon", "token"}}

\* ------------------------------------------------------------- helpers
\* extractTime: the seconds of a leading "[ Ns]" token, NoTime without one.
extractTime(line) == line.ts

\* if newTime, ok := extractTime(line); ok { lastTime = newTime }
updateTime_Monotone(last, line) ==
    IF extractTime(line) # NoTime /\ extractTime(line) > last THEN extractTime(line) ELSE last
updateTime(last, line) ==
    IF extractTime(line) # NoTime THEN extractTime(line) ELSE last

\* phaseMatches[i].matcher.MatchString(line). Matcher 0 is `^\[`: of the
\* lines above, those with a timestamp start with "[". Matchers 1..10 start
\* with `^\[\s*\d+s\] ` and go on with the phase's text; matcher 11 is
\* `^Retried build at`.
phaseMatches_SummaryWithoutWorker(i, line) ==
    IF i = Header THEN line.ts # NoTime
    ELSE IF i = Retries THEN line.sig = Retries /\ line.ts = NoTime
    ELSE IF i = Summary
         THEN (line.sig = Summary \/ line.text = "finished build") /\ line.ts # NoTime
    ELSE line.sig = i /\ line.ts # NoTime
phaseMatches(i, line) ==
    IF i = Header THEN line.ts # NoTime
    ELSE IF i = Retries THEN line.sig = Retries /\ line.ts = NoTime
    ELSE line.sig = i /\ line.ts # NoTime

\* the loop of nextPhase, entered at index i
RECURSIVE nextPhaseFrom(_, _, _)
nextPhaseFrom(i, current, line) ==
    IF i >= NumPhases THEN current
    ELSE IF phaseMatches(i, line) THEN i
    ELSE nextPhaseFrom(i + 1, current, line)

nextPhase_FromFirst(current, line) == nextPhaseFrom(Preinstall, current, line)
nextPhase_FromCurrent(current, line) == nextPhaseFrom(current, current, line)
nextPhase(current, line) == nextPhaseFrom(current + 1, current, line)

\* BuildPhaseDetails{}: the zero value (Properties is never written)
emptyDetails_Succeeded == [Lines |-> <<>>, Success |-> TRUE, Duration |-> 0, Phase |-> Header]
emptyDetails == [Lines |-> <<>>, Success |-> FALSE, Duration |-> 0, Phase |-> Header]

\* currentPhaseDetails.Phase = phase; .Duration = lastTime - phaseStartTime
closeDetails(details, p, last, start) ==
    [details EXCEPT !.Phase = p, !.Duration = last - start]

\* log.Phases = append(log.Phases, currentPhaseDetails)
appendPhase_SkipEmpty(phases, details) ==
    IF details.Lines = <<>> THEN phases ELSE Append(phases, details)
appendPhase(phases, details) == Append(phases, details)

\* currentPhaseDetails.Lines = append(currentPhaseDetails.Lines, line)
appendLine_SkipSignature(details, line) ==
    IF line.sig # 0 THEN details ELSE [details EXCEPT !.Lines = Append(@, line)]
appendLine(details, line) == [details EXCEPT !.Lines = Append(@, line)]

\* the four assignments under buildInfoRegex.FindStringSubmatch
setBuildInfo(l, line) ==
    IF line.meta # NoMeta
    THEN [l EXCEPT !.Name = line.meta.name, !.Project = line.meta.project,
                   !.Distro = line.meta.distro, !.Arch = line.meta.arch]
    ELSE l

\* &BuildLog{rawlog: logContent, Phases: make([]BuildPhaseDetails, 0)}
newBuildLog == [Name |-> "", Project |-> "", Distro |-> "", Arch |-> "", Phases |-> <<>>]

\* the lines of all phases, in order
RECURSIVE allLines(_)
allLines(phases) ==
    IF phases = <<>> THEN <<>> ELSE phases[1].Lines \o allLines(Tail(phases))

\* ------------------------------------------------------------------ state
VARIABLES
    logContent,           \* the input: its lines, as far as the scanner has been through them
    reader,               \* second parse: the lines not yet scanned
    pc,                   \* "scan" | "done" | "rescan" | "redone"
    phase,                \* ParseLog's local phase
    currentPhaseDetails,  \* ParseLog's local currentPhaseDetails
    phaseStartTime,       \* ParseLog's local phaseStartTime
    lastTime,             \* ParseLog's local lastTime
    log,                  \* the *BuildLog being built
    first,                \* the result of the first parse, kept for comparison
    query,                \* FormatJson's caller: the parameters of the query
    result,               \* what FormatJson returned
    pages,                \* the line windows returned so far, one after the other
    currentBuild,         \* package-level currentBuild: 0 (nil) or the number of a job
    buildMu,              \* package-level buildMu: 0 (free) or the job whose goroutine holds it
    jobs,                 \* every buildJob made so far, with its goroutine's position
    BuildLogs,            \* cred.BuildLogs: per key 0 (no entry) or the job whose log it is
    LastBuildKey,         \* cred.LastBuildKey
    reply,                \* what the last Build call returned
    crashed,              \* the runtime has stopped the process ("concurrent map writes")
    configFiles,          \* the temporary osc configuration files on disk: the job each
                          \* was written for, 0 for a call that started no build
    wd,                   \* the working directory: the names in it and what each file holds
    server,               \* the package on the server: the names in it and what each file holds
    sent,                 \* the requests that changed or were to change the server, in order
    commit,               \* Commit's position and locals
    commitReply,          \* what the last Commit call returned
    credName,             \* cred.Name, the configured user
    listRequest,          \* the request ListRequests sent: who built it, from what, its query
    listReply             \* what the last ListRequests call returned

parseVars == <<logContent, reader, pc, phase, currentPhaseDetails, phaseStartTime,
               lastTime, log, first>>
queryVars == <<query, result, pages>>
buildVars == <<currentBuild, buildMu, jobs, BuildLogs, LastBuildKey, reply, crashed,
               configFiles>>
commitVars == <<wd, server, sent, commit, commitReply>>
requestVars == <<credName, listRequest, listReply>>
otherVars == <<queryVars, buildVars, commitVars, requestVars>>
vars == <<parseVars, otherVars>>

\* no query has been made
NoQuery == [offset |-> 0, maxLines |-> 0, showSucceeded |-> FALSE,
            includePattern |-> "", excludePattern |-> ""]
NoResult == [Properties |-> <<>>, Phases |-> <<>>]
IdleQuery ==
    /\ query = NoQuery
    /\ result = NoResult
    /\ pages = <<>>

\* no ListRequests call has been made
NoRequest == [by |-> "none", params |-> "none", query |-> <<>>]
IdleRequests ==
    /\ credName = "testuser"
    /\ listRequest = NoRequest
    /\ listReply = "none"

\* no Commit call has been made, on an empty directory and an empty package
NoFiles == <<>>
NoCommit == [pc |-> "idle", calls |-> 0, params |-> "none", toUpload |-> <<>>,
             remoteFiles |-> NoFiles]
IdleCommit ==
    /\ wd = NoFiles
    /\ server = NoFiles
    /\ sent = <<>>
    /\ commit = NoCommit
    /\ commitReply = "none"

\* the keys of cred.BuildLogs: fmt.Sprintf("%s/%s:%s:%s", project, package, arch, dist)
Packages == {"a", "b"}
HostArch == "x86_64"
buildKey(params, arch) == <<"p", params.PackageName, arch, "dist">>
Keys == {<<"p", pkg, HostArch, "dist">> : pkg \in Packages}
NoKey == <<"", "", "", "">>

\* no Build call has been made: GetCredentials' empty map, nil currentBuild
NoReply == [Error |-> "none", Success |-> FALSE, ParsedLog |-> 0]
IdleBuild ==
    /\ currentBuild = 0
    /\ buildMu = 0
    /\ jobs = <<>>
    /\ BuildLogs = [k \in Keys |-> 0]
    /\ LastBuildKey = NoKey
    /\ reply = NoReply
    /\ crashed = FALSE
    /\ configFiles = {}

\* ParseLog, lines 103..113: the state when the loop is entered
Init ==
    /\ logContent = <<>>
    /\ reader = <<>>
    /\ pc = "scan"
    /\ phase = Header
    /\ currentPhaseDetails = emptyDetails
    /\ phaseStartTime = 0
    /\ lastTime = 0
    /\ log = newBuildLog
    /\ first = newBuildLog
    /\ IdleQuery
    /\ IdleBuild
    /\ IdleCommit
    /\ IdleRequests

\* One iteration of the loop, lines 116..139, on the line the scanner delivered.
ScanLine(line) ==
    LET newLast == updateTime(lastTime, line)
        newPhase == nextPhase(phase, line)
        withInfo == setBuildInfo(log, line)
    IN  /\ lastTime' = newLast
        /\ IF newPhase # phase
           THEN /\ log' = [withInfo EXCEPT !.Phases =
                      appendPhase(@, closeDetails(currentPhaseDetails, phase,
                                                  newLast, phaseStartTime))]
                /\ currentPhaseDetails' = appendLine(emptyDetails, line)
                /\ phase' = newPhase
                /\ phaseStartTime' = newLast
           ELSE /\ log' = withInfo
                /\ currentPhaseDetails' = appendLine(currentPhaseDetails, line)
                /\ UNCHANGED <<phase, phaseStartTime>>

\* Lines 141..143: the open phase is closed and appended.
Flush ==
    /\ currentPhaseDetails' =
           closeDetails(currentPhaseDetails, phase, lastTime, phaseStartTime)
    /\ log' = [log EXCEPT !.Phases = appendPhase(@, currentPhaseDetails')]
    /\ UNCHANGED <<phase, phaseStartTime, lastTime>>

\* scanner.Scan() returns true: the next line of the input is any short line.
Scan ==
    /\ pc = "scan"
    /\ Len(logContent) < MaxLines
    /\ \E line \in ShortLines :
          /\ logContent' = Append(logContent, line)
          /\ ScanLine(line)
    /\ UNCHANGED <<reader, pc, first>>
    /\ UNCHANGED otherVars

\* scanner.Scan() returns false at the end of the input.
ScanEOF ==
    /\ pc = "scan"
    /\ Flush
    /\ pc' = "done"
    /\ UNCHANGED <<logContent, reader, first>>
    /\ UNCHANGED otherVars

\* scanner.Scan() returns false because the next line does not fit the
\* scanner's buffer; scanner.Err() is never looked at, so the loop ends as at
\* the end of the input.
ScanTooLong ==
    /\ pc = "scan"
    /\ Len(logContent) < MaxLines
    /\ logContent' = Append(logContent, LongLine)
    /\ Flush
    /\ pc' = "done"
    /\ UNCHANGED <<reader, first>>
    /\ UNCHANGED otherVars

\* ParseLog is called again, on the lines of the phases of its own result.
Reparse ==
    /\ pc = "done"
    /\ Len(logContent) <= MaxReparseLines
    /\ first' = log
    /\ reader' = allLines(log.Phases)
    /\ pc' = "rescan"
    /\ phase' = Header
    /\ currentPhaseDetails' = emptyDetails
    /\ phaseStartTime' = 0
    /\ lastTime' = 0
    /\ log' = newBuildLog
    /\ UNCHANGED logContent
    /\ UNCHANGED otherVars

Rescan ==
    /\ pc = "rescan"
    /\ reader # <<>>
    /\ ScanLine(Head(reader))
    /\ reader' = Tail(reader)
    /\ UNCHANGED <<logContent, pc, first>>
    /\ UNCHANGED otherVars

RescanEOF ==
    /\ pc = "rescan"
    /\ reader = <<>>
    /\ Flush
    /\ pc' = "redone"
    /\ UNCHANGED <<logContent, reader, first>>
    /\ UNCHANGED otherVars

Next ==
    \/ Scan
    \/ ScanEOF
    \/ ScanTooLong
    \/ Reparse
    \/ Rescan
    \/ RescanEOF

Spec == Init /\ [][Next]_vars

\* ------------------------------------------------------------ properties
Phases == log.Phases

hasMarker(lines) == \E k \in 1..Len(lines) : lines[k].marker # "none"

noTimestamps(lines) == \A k \in 1..Len(lines) : lines[k].ts = NoTime

\* A step that runs the loop body once, and the line it runs it on.
IsScanStep ==
    \/ pc = "scan" /\ pc' = "scan" /\ Len(logContent') = Len(logContent) + 1
    \/ pc = "rescan" /\ pc' = "rescan" /\ reader # <<>> /\ reader' = Tail(reader)

scannedLine == IF pc = "scan" THEN logContent'[Len(logContent')] ELSE Head(reader)

\* C1: when ParseLog has returned, the lines of all phases, concatenated in
\* phase order, are exactly the lines of the input.
C1_Completeness == pc = "done" => allLines(Phases) = logContent

\* C2: in every state of a parse the phases appended so far have
\* non-decreasing phase indices, and the open phase is not below the last
\* appended one.
C2_MonotonicPhases ==
    /\ \A i \in 1..(Len(Phases) - 1) : Phases[i].Phase <= Phases[i + 1].Phase
    /\ (pc \in {"scan", "rescan"} /\ Phases # <<>>) => Phases[Len(Phases)].Phase <= phase

C2_Witness ==
    /\ pc = "done"
    /\ Len(Phases) >= 3
    /\ \E i, j \in 1..Len(logContent) :
          i < j /\ logContent[j].sig > 0 /\ logContent[i].sig > logContent[j].sig

\* C3: each run of the loop body moves phase to the lowest-indexed phase
\* above the current one whose matcher matches the line, leaves it unchanged
\* when there is none, and never lowers it.
C3_NextPhaseContract ==
    [][IsScanStep =>
         LET above == {i \in (phase + 1)..Retries : phaseMatches(i, scannedLine)}
         IN  /\ phase' >= phase
             /\ above = {} => phase' = phase
             /\ above # {} => phase' \in above /\ \A i \in above : phase' <= i]_vars

C3_Witness ==
    /\ pc = "scan"
    /\ phase > Preinstall
    /\ \E k \in 2..Len(currentPhaseDetails.Lines) :
          /\ currentPhaseDetails.Lines[k].sig \in Preinstall..phase
          /\ phaseMatches(currentPhaseDetails.Lines[k].sig, currentPhaseDetails.Lines[k])

\* C4: every phase of a parse result has a duration of at least 0.
C4_DurationNonNegative == \A i \in 1..Len(Phases) : Phases[i].Duration >= 0

\* C5: when ParseLog has returned and some line of the input carries a
\* failure marker, a Summary phase of the result is not marked succeeded.
C5_SummaryFailsOnAnyError ==
    (pc = "done" /\ hasMarker(logContent)) =>
        \A i \in 1..Len(Phases) : Phases[i].Phase = Summary => ~Phases[i].Success

C5_Witness ==
    /\ pc = "done"
    /\ hasMarker(logContent)
    /\ \E i \in 1..Len(Phases) :
          /\ Phases[i].Phase = Summary
          /\ Phases[i].Lines # <<>>
          /\ ~hasMarker(Phases[i].Lines)

\* C6: when ParseLog has returned, a phase with a failure marker in one of
\* its lines is marked failed, and a phase other than Summary without one is
\* marked succeeded.
C6_SegmentLocalSuccess ==
    pc = "done" =>
        \A i \in 1..Len(Phases) :
            /\ hasMarker(Phases[i].Lines) => ~Phases[i].Success
            /\ (Phases[i].Phase # Summary /\ ~hasMarker(Phases[i].Lines)) => Phases[i].Success

\* C7: when ParseLog has returned on an input none of whose lines matches a
\* phase signature or the build-info pattern, the result is one Header phase
\* holding all lines of the input, and the four metadata fields are empty.
C7_UnmatchedInputSingleHeader ==
    (pc = "done" /\ \A k \in 1..Len(logContent) :
                        logContent[k].sig = 0 /\ logContent[k].meta = NoMeta) =>
        /\ Len(Phases) = 1
        /\ Phases[1].Phase = Header
        /\ Phases[1].Lines = logContent
        /\ log.Name = "" /\ log.Project = "" /\ log.Distro = "" /\ log.Arch = ""

\* C8 as stated: an input without any timestamp token yields exactly one
\* phase, of duration 0.
C8_NoTimestampSinglePhase ==
    (pc = "done" /\ noTimestamps(logContent)) =>
        Len(Phases) = 1 /\ Phases[1].Duration = 0

\* C8 as amended: an input without any timestamp token yields only phases of
\* duration 0; exactly one phase when no line starts with "Retried build
\* at", and otherwise at most two, Header followed by a Retries phase that
\* begins with such a line.
C8_NoTimestampZeroDurations ==
    (pc = "done" /\ noTimestamps(logContent)) =>
        /\ \A i \in 1..Len(Phases) : Phases[i].Duration = 0
        /\ Len(Phases) \in {1, 2}
        /\ Phases[1].Phase = Header
        /\ Len(Phases) = 2 =>
              /\ Phases[2].Phase = Retries
              /\ Phases[2].Lines # <<>>
              /\ Phases[2].Lines[1].sig = Retries
        /\ (\A k \in 1..Len(logContent) : logContent[k].sig # Retries) => Len(Phases) = 1

C8_Witness ==
    /\ pc = "done"
    /\ noTimestamps(logContent)
    /\ Len(logContent) >= 2
    /\ Len(Phases) = 2

C10_TransitionOnTriggerLine ==
    [][(IsScanStep /\ Len(log'.Phases) = Len(log.Phases) + 1) =>
         LET line == scannedLine
             t == IF line.ts # NoTime THEN line.ts ELSE lastTime
             closed == log'.Phases[Len(log'.Phases)]
         IN  /\ closed.Phase = phase
             /\ closed.Lines = currentPhaseDetails.Lines
             /\ closed.Duration = t - phaseStartTime
             /\ lastTime' = t
             /\ phaseStartTime' = t
             /\ currentPhaseDetails'.Lines = <<line>>]_vars

C10_Witness ==
    /\ pc = "scan"
    /\ Len(Phases) >= 2
    /\ Len(currentPhaseDetails.Lines) = 1
    /\ currentPhaseDetails.Lines[1].ts = phaseStartTime
    /\ Phases[Len(Phases)].Lines # <<>>
    /\ Phases[Len(Phases)].Duration # 0

metaLines(lines) == {k \in 1..Len(lines) : lines[k].meta # NoMeta}

\* C11: when ParseLog has returned, each of Name, Project, Distro and Arch
\* holds the value of the first scanned line that matches the build-info
\* pattern; later matching lines change nothing.
C11_FirstBuildInfoWins ==
    (pc = "done" /\ metaLines(allLines(Phases)) # {}) =>
        LET lines == allLines(Phases)
            k == CHOOSE i \in metaLines(lines) : \A j \in metaLines(lines) : i <= j
        IN  /\ log.Name = lines[k].meta.name
            /\ log.Project = lines[k].meta.project
            /\ log.Distro = lines[k].meta.distro
            /\ log.Arch = lines[k].meta.arch

\* ------------------------------------------------ the scenario of spec 8
\* '[0s] init_buildsystem', '[2s] querying package ids...', '[5s] ERROR: x'
\* and '[6s] finished "build foo"'. None of them matches a phase matcher:
\* the last one lacks the worker name that the Summary matcher
\* `^\[\s*\d+s\] i\d+-.+ finished "build .+"` wants before "finished".
InitBuildsystemLine == [Line(0, 0, NoMeta, "none", FALSE) EXCEPT !.text = "init_buildsystem"]
QueryingLine == [Line(2, 0, NoMeta, "none", FALSE) EXCEPT !.text = "querying package ids"]
ErrorLine == Line(5, 0, NoMeta, "colon", FALSE)
FinishedLine == [Line(6, 0, NoMeta, "none", FALSE) EXCEPT !.text = "finished build"]
\* '[6s] i01-ch2c finished "build foo"', which the Summary matcher matches
WorkerFinishedLine == Line(6, Summary, NoMeta, "none", FALSE)
\* '[3s] RPMLINT report:'
RPMLintLine == Line(3, RPMLintReport, NoMeta, "none", FALSE)

\* '[1s] host started "build warewulf4.spec" at ...', the first line of a
\* local build: buildInfoRegex does not match it
StartedBuildLine == [Line(1, 0, NoMeta, "none", FALSE) EXCEPT !.text = "started build warewulf4.spec"]
\* '[1s] Building gflags for project 'home:a' repository '16.0' arch 'aarch64''
BuildingLine == Line(1, 0, MetaA, "none", FALSE)

Scenario == <<InitBuildsystemLine, QueryingLine, ErrorLine, FinishedLine>>

ScenarioLines ==
    {InitBuildsystemLine, QueryingLine, ErrorLine, FinishedLine,
     WorkerFinishedLine, RPMLintLine, StartedBuildLine, BuildingLine}

\* ParseLog is called on a log of as many lines as the scenario has, each
\* one of the lines above.
InitScenario ==
    /\ logContent \in [1..Len(Scenario) -> ScenarioLines]
    /\ reader = logContent
    /\ pc = "rescan"
    /\ phase = Header
    /\ currentPhaseDetails = emptyDetails
    /\ phaseStartTime = 0
    /\ lastTime = 0
    /\ log = newBuildLog
    /\ first = newBuildLog
    /\ IdleQuery
    /\ IdleBuild
    /\ IdleCommit
    /\ IdleRequests

NextScenario ==
    \/ Rescan
    \/ RescanEOF

SpecScenario == InitScenario /\ [][NextScenario]_vars

\* C12 as stated: the parse of the scenario ends with a Summary phase that
\* holds the 'finished' line and is marked failed.
C12_ScenarioEndsInSummary ==
    (pc = "redone" /\ logContent = Scenario) =>
        LET last == Phases[Len(Phases)]
        IN  /\ last.Phase = Summary
            /\ \E k \in 1..Len(last.Lines) : last.Lines[k] = FinishedLine
            /\ ~last.Success

\* C12 as amended: the parse of the scenario is a single Header phase that
\* holds all four lines, the 'finished' line last, has duration 6 and is
\* marked failed.
C12_ScenarioIsOneHeader ==
    (pc = "redone" /\ logContent = Scenario) =>
        /\ Len(Phases) = 1
        /\ Phases[1].Phase = Header
        /\ Phases[1].Lines = Scenario
        /\ Phases[1].Lines[Len(Scenario)] = FinishedLine
        /\ Phases[1].Duration = FinishedLine.ts
        /\ ~Phases[1].Success

C12_Witness == pc = "redone" /\ logContent = Scenario /\ Len(Phases) = 1

\* ----------------------------------------------------------- FormatJson
\* bounds of the logs that are formatted and queried
MaxSegmentLines == 2   \* lines of one phase
MaxPage == 2           \* largest page size asked for

buildPhaseNames ==
    <<"Header", "Preinstall", "CopyingPackages", "VMBoot", "PackageCumulation",
      "PackageInstallation", "Build", "PostBuildChecks", "RPMLintReport",
      "PackageComparison", "Summary", "Retries">>

\* BuildPhase.String
String(p) == IF p < Header \/ p > Retries THEN "Unknown" ELSE buildPhaseNames[p + 1]

\* m[k] = v on a Go map
put(m, k, v) == [x \in DOMAIN m \cup {k} |-> IF x = k THEN v ELSE m[x]]

\* the phaseData of one phase: "duration_seconds" only when it is not 0
\* ("properties" never, Properties is never written)
phaseData(d) ==
    IF d.Duration # 0
    THEN [lines |-> d.Lines, success |-> d.Success, duration_seconds |-> d.Duration]
    ELSE [lines |-> d.Lines, success |-> d.Success]

\* the loop over log.Phases: phasesMap[phaseDetail.Phase.String()] = phaseData
RECURSIVE phasesMapFrom(_, _)
phasesMapFrom(phases, m) ==
    IF phases = <<>> THEN m
    ELSE phasesMapFrom(Tail(phases), put(m, String(phases[1].Phase), phaseData(phases[1])))

\* FormatJson takes no parameter: what the caller wants shown never reaches it
FormatJson(l) ==
    [Properties |-> [Name |-> l.Name, Project |-> l.Project,
                     Distro |-> l.Distro, Arch |-> l.Arch],
     Phases |-> phasesMapFrom(l.Phases, <<>>)]

\* ----------------------------------------------------------------- Query
\* The lines of the logs that are queried: one with a timestamp and one
\* with "error:".
TimedLine == Line(0, 0, NoMeta, "none", FALSE)
QueryLines == {TimedLine, ErrorLine}

\* the filter patterns: "" is no pattern, "error:" and `^\[` are two
\* regular expressions
Patterns == {"", "error:", "^\\["}

\* regexp.MatchString(pattern, line)
matchString(pattern, line) ==
    IF pattern = "error:" THEN line.marker = "colon"
    ELSE IF pattern = "^\\[" THEN line.ts # NoTime
    ELSE TRUE

\* the cap that replaces a maxLines <= 0
DefaultMaxLines == 1000

Min(a, b) == IF a < b THEN a ELSE b

\* per-segment gating
gatedIn(d, q) == q.showSucceeded \/ ~d.Success

\* line filtering: first the exclude pattern drops, then the include pattern keeps
keep(line, q) ==
    /\ q.excludePattern = "" \/ ~matchString(q.excludePattern, line)
    /\ q.includePattern = "" \/ matchString(q.includePattern, line)

\* the filtered lines of all gated-in segments, as one stream
RECURSIVE filteredLines(_, _)
filteredLines(phases, q) ==
    IF phases = <<>> THEN <<>>
    ELSE LET Test(line) == keep(line, q)
         IN  (IF gatedIn(phases[1], q) THEN SelectSeq(phases[1].Lines, Test) ELSE <<>>)
                 \o filteredLines(Tail(phases), q)

\* the window of the stream that offset and maxLines select
window_FromOffset(stream, offset, maxLines) ==
    SubSeq(stream, Min(IF offset = 0 THEN 1 ELSE offset, Len(stream) + 1),
           Min(offset + maxLines, Len(stream)))
window(stream, offset, maxLines) ==
    SubSeq(stream, Min(offset + 1, Len(stream) + 1), Min(offset + maxLines, Len(stream)))

\* Query(log, offset, maxLines, showSucceeded, includePattern, excludePattern)
Query(l, q) ==
    LET stream == filteredLines(l.Phases, q)
        offset == IF q.offset < 0 THEN 0 ELSE q.offset
        maxLines == IF q.maxLines <= 0 THEN DefaultMaxLines ELSE q.maxLines
    IN  [summary |-> [i \in 1..Len(l.Phases) |->
                         [phase |-> l.Phases[i].Phase,
                          duration |-> l.Phases[i].Duration,
                          succeeded |-> l.Phases[i].Success]],
         lines |-> window(stream, offset, maxLines),
         total |-> Len(stream)]

\* the phases of a log: Header and Build, each with some lines, a duration
\* and a success flag
SegmentLines == UNION {[1..n -> QueryLines] : n \in 0..MaxSegmentLines}
Segments(p) ==
    {[Lines |-> ls, Success |-> ok, Duration |-> d, Phase |-> p] :
        ls \in SegmentLines, ok \in BOOLEAN, d \in {0, 2}}
QueryLogs ==
    {[newBuildLog EXCEPT !.Phases = <<h, b>>] : h \in Segments(Header), b \in Segments(Build)}
    \cup {[newBuildLog EXCEPT !.Phases = <<h>>] : h \in Segments(Header)}

Queries ==
    [offset : {0}, maxLines : 0..MaxPage, showSucceeded : BOOLEAN,
     includePattern : Patterns, excludePattern : Patterns]

\* a parsed log is at hand and a caller has chosen its parameters
InitQuery ==
    /\ log \in QueryLogs
    /\ query \in Queries
    /\ result = NoResult
    /\ pages = <<>>
    /\ pc = "query"
    /\ logContent = <<>>
    /\ reader = <<>>
    /\ phase = Header
    /\ currentPhaseDetails = emptyDetails
    /\ phaseStartTime = 0
    /\ lastTime = 0
    /\ first = newBuildLog
    /\ IdleBuild
    /\ IdleCommit
    /\ IdleRequests

\* log.FormatJson(...)
CallFormatJson ==
    /\ pc = "query"
    /\ result = NoResult
    /\ result' = FormatJson(log)
    /\ UNCHANGED <<parseVars, query, pages, buildVars, commitVars, requestVars>>

\* Query at the current offset; the caller sees from the total that the
\* window was cut and asks again, max lines further on
CallQuery ==
    /\ pc = "query"
    /\ query.offset < Query(log, query).total
    /\ query.maxLines > 0 \/ pages = <<>>
    /\ pages' = pages \o Query(log, query).lines
    /\ query' = [query EXCEPT !.offset = @ + query.maxLines]
    /\ UNCHANGED <<parseVars, result, buildVars, commitVars, requestVars>>

NextQuery ==
    \/ CallFormatJson
    \/ CallQuery

SpecQuery == InitQuery /\ [][NextQuery]_vars

\* the entry of FormatJson's result for the i-th phase of the log
entryOf(i) == result.Phases[String(Phases[i].Phase)]

filteredStream == filteredLines(Phases, query)

\* C14: for a page size above 0 the windows returned for the offsets 0, max,
\* 2*max, ... are, one after the other, the filtered stream of the gated-in
\* segments up to the offset reached: no line is missing and none comes twice;
\* when the offset has passed the end they are the whole stream.
C14_PaginationComplete ==
    (pc = "query" /\ query.maxLines > 0) =>
        pages = SubSeq(filteredStream, 1, Min(query.offset, Len(filteredStream)))

C14_Witness ==
    /\ pc = "query"
    /\ query.maxLines = 2
    /\ query.offset >= Len(filteredStream)
    /\ Len(pages) >= 3
    /\ pages = filteredStream
    /\ Len(Phases) = 2
    /\ Phases[1].Success
    /\ query.showSucceeded
    /\ query.excludePattern # ""
    /\ filteredLines(<<Phases[1]>>, query) # <<>>
    /\ filteredLines(<<Phases[2]>>, query) # <<>>
    /\ Len(allLines(Phases)) > Len(filteredStream)

\* ------------------------------------------------------------------ Build
MaxBuilds == 2         \* build processes started

\* BuildParam: the fields that tell two calls apart here. Without Arch the
\* architecture is taken from the project's meta data. The last two lack a
\* name.
BuildParams ==
    {[ProjectName |-> "p", PackageName |-> "a", Arch |-> ""],
     [ProjectName |-> "p", PackageName |-> "a", Arch |-> HostArch],
     [ProjectName |-> "p", PackageName |-> "b", Arch |-> HostArch],
     [ProjectName |-> "", PackageName |-> "a", Arch |-> HostArch],
     [ProjectName |-> "p", PackageName |-> "", Arch |-> HostArch]}

\* &buildJob{params, cmd, cancel, done}; pc is where its goroutine stands:
\*   "wait"   in job.cmd.Wait()
\*   "cache"  before cred.BuildLogs[buildKey] = buildLog
\*   "key"    before cred.LastBuildKey = buildKey
\*   "lock"   before buildMu.Lock()
\*   "locked" holding buildMu
\*   "closed" job.done is closed
\* type BuildResult: the error text, the success flag and the parsed log (the
\* number of the job whose output it is, 0 for none)
BuildResult(err, success, parsedLog) ==
    [Error |-> err, Success |-> success, ParsedLog |-> parsedLog]
failure(msg) == BuildResult(msg, FALSE, 0)
\* job.result == nil
NilResult == BuildResult("", FALSE, 0)
newJob(params, arch) ==
    [params |-> params, key |-> buildKey(params, arch), pc |-> "wait",
     cancelled |-> FALSE, buildErr |-> FALSE, result |-> NilResult]

\* currentBuild.cancel()
cancel_Noop(js, j) == js
cancel(js, j) == IF j = 0 THEN js ELSE [js EXCEPT ![j].cancelled = TRUE]

\* writeTempOscConfig: the files on disk after the call. Without a user name
\* in the credentials no file is written.
writeTempOscConfig(files, owner) ==
    IF credName = "" THEN files ELSE files \cup {owner}

\* Lines 81..178: a build is to be started. The configuration file is
\* written first; the lookup of distribution and architecture or the start
\* of the process may fail.
BuildStart(params) ==
    \/ /\ params.Arch = ""
       /\ reply' = failure("failed to get project meta to determine distribution and arch")
       /\ currentBuild' = 0
       /\ jobs' = cancel(jobs, currentBuild)
       /\ configFiles' = writeTempOscConfig(configFiles, 0)
    \/ /\ reply' = failure("failed to start build")
       /\ currentBuild' = 0
       /\ jobs' = cancel(jobs, currentBuild)
       /\ configFiles' = writeTempOscConfig(configFiles, 0)
    \/ /\ Len(jobs) < MaxBuilds
       /\ reply' = BuildResult("Build started in background.", TRUE, 0)
       /\ jobs' = Append(cancel(jobs, currentBuild), newJob(params, HostArch))
       /\ currentBuild' = Len(jobs) + 1
       /\ configFiles' = writeTempOscConfig(configFiles, Len(jobs) + 1)

\* The Build handler, from buildMu.Lock() to the return.
BuildLocked_NoDedup(params) ==
    IF currentBuild # 0 /\ jobs[currentBuild].params = params
          /\ jobs[currentBuild].pc = "closed"
    THEN /\ reply' = jobs[currentBuild].result
         /\ currentBuild' = 0
         /\ UNCHANGED <<jobs, configFiles>>
    ELSE BuildStart(params)
BuildLocked(params) ==
    IF currentBuild # 0 /\ jobs[currentBuild].params = params
    THEN IF jobs[currentBuild].pc = "closed"
         THEN /\ reply' = jobs[currentBuild].result
              /\ currentBuild' = 0
              /\ UNCHANGED <<jobs, configFiles>>
         ELSE /\ reply' = failure("A build with the same parameters is already in progress.")
              /\ UNCHANGED <<currentBuild, jobs, configFiles>>
    ELSE BuildStart(params)

\* one call of Build with these parameters
BuildCall(params) ==
    /\ IF params.ProjectName = ""
       THEN /\ reply' = failure("project name must be specified")
            /\ UNCHANGED <<currentBuild, jobs, configFiles>>
       ELSE IF params.PackageName = ""
       THEN /\ reply' = failure("package name must be specified")
            /\ UNCHANGED <<currentBuild, jobs, configFiles>>
       ELSE buildMu = 0 /\ BuildLocked(params)
    /\ UNCHANGED <<buildMu, BuildLogs, LastBuildKey, crashed>>

\* (cred *OSCCredentials) Build
BuildTool ==
    /\ ~crashed
    /\ \E params \in BuildParams : BuildCall(params)
    /\ UNCHANGED <<parseVars, queryVars, commitVars, requestVars>>

\* job.cmd.Wait() returns, the output is parsed
GoWait ==
    /\ ~crashed
    /\ \E j \in 1..Len(jobs), err \in BOOLEAN :
          /\ jobs[j].pc = "wait"
          /\ jobs' = [jobs EXCEPT ![j].pc = "cache", ![j].buildErr = err]
    /\ UNCHANGED <<configFiles, currentBuild, buildMu, BuildLogs, LastBuildKey, reply, crashed,
                   parseVars, queryVars, commitVars, requestVars>>

\* cred.BuildLogs[buildKey] = buildLog. No lock is held; when another
\* goroutine is at the same write, the runtime may stop the process.
GoWriteLogs ==
    /\ ~crashed
    /\ \E j \in 1..Len(jobs) :
          /\ jobs[j].pc = "cache"
          /\ \/ /\ BuildLogs' = [BuildLogs EXCEPT ![jobs[j].key] = j]
                /\ jobs' = [jobs EXCEPT ![j].pc = "key"]
                /\ UNCHANGED crashed
             \/ /\ \E k \in 1..Len(jobs) : k # j /\ jobs[k].pc = "cache"
                /\ crashed' = TRUE
                /\ UNCHANGED <<BuildLogs, jobs>>
    /\ UNCHANGED <<configFiles, currentBuild, buildMu, LastBuildKey, reply, parseVars, queryVars, commitVars, requestVars>>

\* cred.LastBuildKey = buildKey
GoWriteKey ==
    /\ ~crashed
    /\ \E j \in 1..Len(jobs) :
          /\ jobs[j].pc = "key"
          /\ LastBuildKey' = jobs[j].key
          /\ jobs' = [jobs EXCEPT ![j].pc = "lock"]
    /\ UNCHANGED <<configFiles, currentBuild, buildMu, BuildLogs, reply, crashed, parseVars, queryVars, commitVars, requestVars>>

\* buildMu.Lock()
GoLock ==
    /\ ~crashed
    /\ buildMu = 0
    /\ \E j \in 1..Len(jobs) :
          /\ jobs[j].pc = "lock"
          /\ buildMu' = j
          /\ jobs' = [jobs EXCEPT ![j].pc = "locked"]
    /\ UNCHANGED <<configFiles, currentBuild, BuildLogs, LastBuildKey, reply, crashed, parseVars, queryVars, commitVars, requestVars>>

\* if currentBuild == job { job.result = &result }
storeResult_Never(j) == jobs[j].result
storeResult(j) ==
    IF currentBuild = j
    THEN BuildResult(IF jobs[j].buildErr THEN "exit status 1" ELSE "",
                     ~jobs[j].buildErr, j)
    ELSE jobs[j].result

\* if currentBuild == job { job.result = &result }; close(job.done); Unlock;
\* then the deferred os.Remove(configFile)
GoFinish ==
    /\ ~crashed
    /\ \E j \in 1..Len(jobs) :
          /\ jobs[j].pc = "locked"
          /\ jobs' = [jobs EXCEPT
                        ![j].pc = "closed",
                        ![j].result = storeResult(j)]
          /\ buildMu' = 0
          /\ configFiles' = configFiles \ {j}
    /\ UNCHANGED <<currentBuild, BuildLogs, LastBuildKey, reply, crashed, parseVars, queryVars, commitVars, requestVars>>

InitBuild ==
    /\ IdleBuild
    /\ IdleQuery
    /\ IdleCommit
    /\ IdleRequests
    /\ pc = "build"
    /\ logContent = <<>>
    /\ reader = <<>>
    /\ phase = Header
    /\ currentPhaseDetails = emptyDetails
    /\ phaseStartTime = 0
    /\ lastTime = 0
    /\ log = newBuildLog
    /\ first = newBuildLog

NextBuild ==
    \/ BuildTool
    \/ GoWait
    \/ GoWriteLogs
    \/ GoWriteKey
    \/ GoLock
    \/ GoFinish

SpecBuild == InitBuild /\ [][NextBuild]_vars

\* every goroutine that was started has closed its done channel
allFinished == jobs # <<>> /\ \A j \in 1..Len(jobs) : jobs[j].pc = "closed"

\* the jobs started for a key, and the last of them
startedFor(key) == {j \in 1..Len(jobs) : jobs[j].key = key}
lastStarted(key) == CHOOSE j \in startedFor(key) : \A k \in startedFor(key) : k <= j

\* C15: when every build process that was started has finished, the cache
\* entry of each build identity is the log of the build started last with
\* that identity, and LastBuildKey is the key of the build started last; a
\* superseded build does not overwrite what its successor wrote.
C15_CacheHoldsLatestBuild ==
    (allFinished /\ ~crashed) =>
        /\ \A key \in Keys : startedFor(key) # {} => BuildLogs[key] = lastStarted(key)
        /\ LastBuildKey = jobs[Len(jobs)].key

\* the goroutine of job j is at its writes of cred.BuildLogs and cred.LastBuildKey
inCache(j) == jobs[j].pc \in {"cache", "key"}

\* C16: the cache is never accessed by two goroutines at once: whoever is at
\* a write of BuildLogs or LastBuildKey holds buildMu, so no two are.
C16_CacheAccessSynchronized ==
    /\ \A j \in 1..Len(jobs) : inCache(j) => buildMu = j
    /\ \A j, k \in 1..Len(jobs) : (inCache(j) /\ inCache(k)) => j = k

\* C17: a parse result holds each phase in at most one segment, so the
\* phase-keyed output of FormatJson has one entry per segment, each the data
\* of its segment: none is overwritten by another.
C17_PhaseKeyedLossless ==
    pc \in {"done", "redone"} =>
        /\ Cardinality({Phases[i].Phase : i \in 1..Len(Phases)}) = Len(Phases)
        /\ Cardinality(DOMAIN FormatJson(log).Phases) = Len(Phases)
        /\ \A i \in 1..Len(Phases) :
              FormatJson(log).Phases[String(Phases[i].Phase)] = phaseData(Phases[i])

C17_Witness ==
    /\ pc = "done"
    /\ Len(Phases) = 3
    /\ Cardinality(DOMAIN FormatJson(log).Phases) = 3
    /\ \A i \in 1..Len(Phases) : Phases[i].Lines # <<>>

\* a local build log: it has the 'started "build <name>.spec"' line and no
\* line that buildInfoRegex matches
isLocalLog(lines) ==
    /\ \E k \in 1..Len(lines) : lines[k] = StartedBuildLine
    /\ \A k \in 1..Len(lines) : lines[k].meta = NoMeta

\* C18: the parse of a local build log has the name of the spec file as
\* Name, and Project empty or "local".
C18_LocalBuildName ==
    (pc = "redone" /\ isLocalLog(logContent)) =>
        /\ log.Name = "warewulf4"
        /\ log.Project \in {"", "local"}

\* ----------------------------------------------------------------- Commit
MaxCommits == 2        \* Commit calls

\* File names, as stem and extension. ".osc" is a directory.
SpecFile == <<"pkg", "spec">>
PkgChanges == <<"pkg", "changes">>
OtherChanges == <<"other", "changes">>
ServiceFile == <<"_service:x", "">>
OscDir == <<".osc", "">>
\* os.ReadDir: sorted by file name
FileOrder == <<OscDir, ServiceFile, OtherChanges, PkgChanges, SpecFile>>

\* what a file holds: the entries of a changes file, one record for others
OldEntry == [author |-> "someone", lines |-> <<"old">>]
FileV1 == <<[author |-> "", lines |-> <<"v1">>]>>
FileV2 == <<[author |-> "", lines |-> <<"v2">>]>>

\* the files of names, in the order of ReadDir
inOrder(names) == SelectSeq(FileOrder, LAMBDA n : n \in names)

\* filepath.Glob(path.Join(dir, "*changes")), "*spec"
Glob(dir, ext) == {n \in DOMAIN dir : n[2] = ext}

\* strings.TrimSuffix(changesFile, ".spec") + ".changes"
specToChanges(n) == <<n[1], "changes">>

\* the empty file name ""
NoFile == <<"", "">>

\* edlib.FuzzySearch: the most similar of the candidates, "" when none is similar
FuzzySearch(candidates) == candidates \cup {NoFile}

\* The choice of the changes file, lines 104..125: the spec files are looked
\* at only inside the branch taken when there is a changes file.
changesFileChoices(dir) ==
    LET changesFiles == Glob(dir, "changes")
        specFiles == Glob(dir, "spec")
        fromSpec == IF specFiles = {} THEN {NoFile}
                    ELSE IF Cardinality(specFiles) > 1
                    THEN {IF f = NoFile THEN NoFile ELSE specToChanges(f) :
                             f \in FuzzySearch(specFiles)}
                    ELSE {specToChanges(f) : f \in specFiles}
    IN  IF changesFiles # {}
        THEN IF Cardinality(changesFiles) > 1
             THEN (FuzzySearch(changesFiles) \ {NoFile}) \cup fromSpec
             ELSE changesFiles
        ELSE {NoFile}

\* strings.TrimSpace
TrimSpace(str) == IF str = " " THEN "" ELSE str

\* createChangesEntry: header with the author, then "- line" for each line of
\* the message that is not blank
createChangesEntry(message, userName) ==
    [author |-> userName,
     lines |-> IF TrimSpace(message) # "" THEN <<TrimSpace(message)>> ELSE <<>>]

\* os.ReadFile of a file that may not exist, and the write of entry + content
readOrEmpty(dir, n) == IF n \in DOMAIN dir THEN dir[n] ELSE <<>>
prependEntry(dir, n, entry) == put(dir, n, <<entry>> \o readOrEmpty(dir, n))

\* files of the directory that are committed: no directory, no hidden file
isHidden(n) == n[1] = ".osc"
localFiles(dir) == {n \in DOMAIN dir : ~isHidden(n)}
isServiceFile(n) == n[1] = "_service:x"

\* newFiles and changedFiles, lines 159..186
newFiles(dir, remote) == inOrder({n \in localFiles(dir) : n \notin DOMAIN remote})
changedFiles(dir, remote) ==
    inOrder({n \in localFiles(dir) : n \in DOMAIN remote /\ remote[n] # dir[n]})

\* commitDir.Entries, lines 217..251: every local file, then the server's
\* "_service:" entries
commitEntries(dir, remote) ==
    inOrder(localFiles(dir)) \o inOrder({n \in DOMAIN remote : isServiceFile(n)})

CommitCmds ==
    [Message : {"", " ", "fix"}, Directory : {"", "/p/pkg"}, SkipChangesCreation : BOOLEAN]

\* Lines 64..143: the checks of the parameters and the changes file.
CommitStart ==
    /\ commit.pc = "idle"
    /\ commit.calls < MaxCommits
    /\ \E params \in CommitCmds :
          LET called == [commit EXCEPT !.calls = @ + 1, !.params = params]
          IN  IF params.Message = ""
              THEN /\ commitReply' = "commit message must be specified"
                   /\ commit' = called
                   /\ UNCHANGED wd
              ELSE IF params.Directory = ""
              THEN /\ commitReply' = "directory must be specified"
                   /\ commit' = called
                   /\ UNCHANGED wd
              ELSE IF params.SkipChangesCreation
              THEN /\ commit' = [called EXCEPT !.pc = "list"]
                   /\ UNCHANGED <<wd, commitReply>>
              ELSE \E changesFile \in changesFileChoices(wd) :
                      IF changesFile = NoFile
                      THEN /\ commit' = [called EXCEPT !.pc = "list"]
                           /\ UNCHANGED <<wd, commitReply>>
                      ELSE \/ /\ wd' = prependEntry(wd, changesFile,
                                           createChangesEntry(params.Message, "user-mcpbot"))
                              /\ commit' = [called EXCEPT !.pc = "list"]
                              /\ UNCHANGED commitReply
                           \/ /\ commitReply' \in {"failed to read changes file",
                                                  "failed to write to changes file"}
                              /\ commit' = called
                              /\ UNCHANGED wd
    /\ UNCHANGED <<server, sent, parseVars, queryVars, buildVars, requestVars>>

\* Lines 144..190: the server's file list and what has to be uploaded.
CommitList ==
    /\ commit.pc = "list"
    /\ \/ /\ commit' = [commit EXCEPT !.pc = "upload", !.remoteFiles = server,
                           !.toUpload = newFiles(wd, server) \o changedFiles(wd, server)]
          /\ UNCHANGED commitReply
       \/ /\ commitReply' \in {"failed to get remote file list",
                              "failed to read local directory"}
          /\ commit' = [commit EXCEPT !.pc = "idle"]
    /\ UNCHANGED <<wd, server, sent, parseVars, queryVars, buildVars, requestVars>>

\* Lines 192..203: uploadFile of the next file.
CommitUpload_IgnoreError ==
    /\ commit.pc = "upload"
    /\ commit.toUpload # <<>>
    /\ LET fileName == Head(commit.toUpload)
       IN  \/ /\ server' = put(server, fileName, wd[fileName])
              /\ sent' = Append(sent, [op |-> "upload", name |-> fileName])
              /\ commit' = [commit EXCEPT !.toUpload = Tail(@)]
              /\ UNCHANGED commitReply
           \/ /\ commitReply' = "failed to upload file"
              /\ commit' = [commit EXCEPT !.toUpload = Tail(@)]
              /\ UNCHANGED <<server, sent>>
    /\ UNCHANGED <<wd, parseVars, queryVars, buildVars, requestVars>>
CommitUpload ==
    /\ commit.pc = "upload"
    /\ commit.toUpload # <<>>
    /\ LET fileName == Head(commit.toUpload)
       IN  \/ /\ server' = put(server, fileName, wd[fileName])
              /\ sent' = Append(sent, [op |-> "upload", name |-> fileName])
              /\ commit' = [commit EXCEPT !.toUpload = Tail(@)]
              /\ UNCHANGED commitReply
           \/ /\ commitReply' = "failed to upload file"
              /\ commit' = [commit EXCEPT !.pc = "idle", !.toUpload = <<>>]
              /\ UNCHANGED <<server, sent>>
    /\ UNCHANGED <<wd, parseVars, queryVars, buildVars, requestVars>>

\* Lines 209..263: the file list is put together and committed; the server
\* may run services that generate files.
CommitSend ==
    /\ commit.pc = "upload"
    /\ commit.toUpload = <<>>
    /\ \/ /\ sent' = Append(sent, [op |-> "commit",
                                   entries |-> commitEntries(wd, commit.remoteFiles)])
          /\ \E generated \in BOOLEAN :
                server' = IF generated THEN put(server, ServiceFile, FileV1) ELSE server
          /\ commit' = [commit EXCEPT !.pc = "sync"]
          /\ UNCHANGED commitReply
       \/ /\ commitReply' \in {"failed to re-read local directory",
                              "failed to commit changes"}
          /\ commit' = [commit EXCEPT !.pc = "idle"]
          /\ UNCHANGED <<server, sent>>
    /\ UNCHANGED <<wd, parseVars, queryVars, buildVars, requestVars>>

\* the downloads of the server's files that the directory lacks
RECURSIVE download(_, _, _)
download(dir, remote, names) ==
    IF names = <<>> THEN dir
    ELSE download(IF Head(names) \in DOMAIN dir THEN dir
                  ELSE put(dir, Head(names), remote[Head(names)]),
                  remote, Tail(names))

\* Lines 265..345: with a .osc directory, the files the server has and the
\* directory has not are downloaded into it.
CommitSync ==
    /\ commit.pc = "sync"
    /\ \/ /\ OscDir \in DOMAIN wd
          /\ wd' = download(wd, server, inOrder(DOMAIN server))
       \/ UNCHANGED wd
    /\ commitReply' = "revision"
    /\ commit' = [commit EXCEPT !.pc = "idle"]
    /\ UNCHANGED <<server, sent, parseVars, queryVars, buildVars, requestVars>>

\* the directories and packages Commit is called on
WorkingDirs ==
    UNION {
      {[n \in names |->
           IF n[2] = "changes" THEN (IF n = PkgChanges THEN old ELSE <<>>) ELSE FileV2] :
         old \in {<<>>, <<OldEntry>>}} :
      names \in SUBSET {OscDir, OtherChanges, PkgChanges, SpecFile}}
ServerDirs ==
    {[n \in names |-> v] : names \in SUBSET {SpecFile, ServiceFile}, v \in {FileV1, FileV2}}

InitCommit ==
    /\ wd \in WorkingDirs
    /\ server \in ServerDirs
    /\ sent = <<>>
    /\ commit = NoCommit
    /\ commitReply = "none"
    /\ IdleBuild
    /\ IdleQuery
    /\ IdleRequests
    /\ pc = "commit"
    /\ logContent = <<>>
    /\ reader = <<>>
    /\ phase = Header
    /\ currentPhaseDetails = emptyDetails
    /\ phaseStartTime = 0
    /\ lastTime = 0
    /\ log = newBuildLog
    /\ first = newBuildLog

NextCommit ==
    \/ CommitStart
    \/ CommitList
    \/ CommitUpload
    \/ CommitSend
    \/ CommitSync

SpecCommit == InitCommit /\ [][NextCommit]_vars

\* C19: when Commit, called without SkipChangesCreation on a directory with
\* a .spec file, has passed its changes-file step, the .changes file of that
\* spec file exists and begins with a new entry that carries the message.
C19_ChangesFileWritten ==
    (commit.pc = "list" /\ ~commit.params.SkipChangesCreation /\ SpecFile \in DOMAIN wd) =>
        /\ specToChanges(SpecFile) \in DOMAIN wd
        /\ wd[specToChanges(SpecFile)] # <<>>
        /\ wd[specToChanges(SpecFile)][1].author = "user-mcpbot"
        /\ wd[specToChanges(SpecFile)][1].lines = <<commit.params.Message>>

\* ----------------------------------------------------------- ListRequests
ListRequestsCmds ==
    [User : {"", "testuser", "other"}, Group : {"", "g"}, Project : {"", "prj"},
     Package : {"", "pkg"}, States : {"", "accepted"}, ReviewStates : {"", "new"},
     Limit : {0, 5}]

\* queryParams.Set(key, value) when cond holds
setIf(cond, q, key, value) == IF cond THEN put(q, key, value) ELSE q

\* url.Values.Get: "" for a key that is not set
Get(q, key) == IF key \in DOMAIN q THEN q[key] ELSE ""

\* the parameters both versions set the same way: states, reviewstates, limit
\* (types is set like reviewstates)
commonParams(q, params) ==
    LET q1 == put(q, "states", IF params.States # "" THEN params.States ELSE "new,review")
        q2 == setIf(params.ReviewStates # "", q1, "reviewstates", params.ReviewStates)
    IN  setIf(params.Limit > 0, q2, "limit", ToString(params.Limit))

\* group, project and package
filterParams(q, params) ==
    LET q1 == setIf(params.Group # "", q, "group", params.Group)
        q2 == setIf(params.Project # "", q1, "project", params.Project)
    IN  setIf(params.Package # "", q2, "package", params.Package)

\* internal/pkg/osc/requests.go: user is params.User or else cred.Name, and
\* is set whenever it is not empty
queryParams(params, name) ==
    LET q0 == put(<<>>, "view", "collection")
        user == IF params.User = "" THEN name ELSE params.User
        q1 == setIf(user # "", q0, "user", user)
    IN  commonParams(filterParams(q1, params), params)

\* The later version: user is set only when params.User is empty and no
\* group, project or package is given; withfullhistory always.
queryParamsMustSetUser(params, name) ==
    LET q0 == put(<<>>, "view", "collection")
        mustSetuser == params.Group = "" /\ params.Project = "" /\ params.Package = ""
        q1 == commonParams(filterParams(q0, params), params)
        q2 == setIf(params.User = "" /\ mustSetuser, q1, "user", name)
    IN  put(q2, "withfullhistory", "1")

\* the request is sent; the server answers 200 with a collection or not
ListRequests ==
    /\ \E params \in ListRequestsCmds :
          listRequest' = [by |-> "requests.go", params |-> params,
                          query |-> queryParams(params, credName)]
    /\ listReply' \in {"failed to get requests", "requests"}
    /\ UNCHANGED <<credName, parseVars, queryVars, buildVars, commitVars>>

ListRequestsMustSetUser ==
    /\ \E params \in ListRequestsCmds :
          listRequest' = [by |-> "part_007", params |-> params,
                          query |-> queryParamsMustSetUser(params, credName)]
    /\ listReply' \in {"failed to get requests", "requests"}
    /\ UNCHANGED <<credName, parseVars, queryVars, buildVars, commitVars>>

InitRequests ==
    /\ credName \in {"", "testuser"}
    /\ listRequest = NoRequest
    /\ listReply = "none"
    /\ IdleBuild
    /\ IdleQuery
    /\ IdleCommit
    /\ pc = "requests"
    /\ logContent = <<>>
    /\ reader = <<>>
    /\ phase = Header
    /\ currentPhaseDetails = emptyDetails
    /\ phaseStartTime = 0
    /\ lastTime = 0
    /\ log = newBuildLog
    /\ first = newBuildLog

NextRequests ==
    \/ ListRequests
    \/ ListRequestsMustSetUser

SpecRequests == InitRequests /\ [][NextRequests]_vars

\* C20: the request ListRequests sends has user = params.User when that is
\* not empty, and user = the configured user when params.User is empty and
\* neither group nor project nor package is given.
C20_UserParameter ==
    listRequest.by # "none" =>
        LET params == listRequest.params
        IN  /\ params.User # "" => Get(listRequest.query, "user") = params.User
            /\ (params.User = "" /\ params.Group = "" /\ params.Project = ""
                    /\ params.Package = "")
                  => Get(listRequest.query, "user") = credName

\* ---------------------------------------------------------------------
\* The build job of the Build tool: one current build, its cancellation,
\* its result and the lock (src/unnamed/part_008)
\* ---------------------------------------------------------------------

InProgress == failure("A build with the same parameters is already in progress.")

\* the current job's process has been started and job.done is not closed
running(params) ==
    /\ currentBuild # 0
    /\ jobs[currentBuild].params = params
    /\ jobs[currentBuild].pc # "closed"

\* C21: while a job is current and its done channel is not closed, a call of
\* Build with equal parameters returns "already in progress" and changes
\* nothing else: no job is started, none is cancelled and currentBuild is the
\* same, wherever the job's goroutine stands.
C21_SameParamsInProgress ==
    [][\A params \in BuildParams :
          (~crashed /\ running(params) /\ BuildCall(params))
             => /\ reply' = InProgress
                /\ UNCHANGED <<currentBuild, jobs, buildMu, BuildLogs, LastBuildKey,
                               configFiles>>]_vars

\* a second call found the build in progress while its goroutine had
\* already left Wait
C21_Witness ==
    /\ reply = InProgress
    /\ currentBuild # 0
    /\ jobs[currentBuild].pc = "cache"
    /\ ~jobs[currentBuild].cancelled
    /\ Len(jobs) = 1

\* the started builds that are neither cancelled nor finished
liveBuilds ==
    {j \in 1..Len(jobs) : ~jobs[j].cancelled /\ jobs[j].pc # "closed"}

\* C22: at most one started build is neither cancelled nor finished: every
\* job other than the current one has been cancelled (before its successor
\* was started) or has finished, and currentBuild is never a cancelled job.
C22_OneLiveBuild ==
    /\ Cardinality(liveBuilds) <= 1
    /\ liveBuilds \subseteq {currentBuild}
    /\ currentBuild # 0 => ~jobs[currentBuild].cancelled

\* a call with other parameters has replaced a build that still runs
C22_Witness ==
    /\ Len(jobs) = 2
    /\ currentBuild = 2
    /\ jobs[1].params # jobs[2].params
    /\ jobs[1].pc = "wait" /\ jobs[1].cancelled
    /\ jobs[2].pc = "wait" /\ ~jobs[2].cancelled

\* the replies of a call that has started no build
NotStarted ==
    {failure("project name must be specified"),
     failure("package name must be specified"),
     failure("failed to get project meta to determine distribution and arch"),
     failure("failed to start build")}

\* C23: a Build call that returns an error or a failure without starting a
\* build leaves the build that was running when it arrived untouched: that
\* build is not cancelled and is still the current build.
C23_FailedCallKeepsBuild ==
    [][\A params \in BuildParams :
          (/\ ~crashed
           /\ currentBuild # 0
           /\ jobs[currentBuild].pc # "closed"
           /\ BuildCall(params)
           /\ reply' \in NotStarted)
             => UNCHANGED <<currentBuild, jobs>>]_vars

\* a call of Build that finds the current job's done channel closed
collects(params) ==
    /\ ~crashed
    /\ currentBuild # 0
    /\ jobs[currentBuild].params = params
    /\ jobs[currentBuild].pc = "closed"
    /\ BuildCall(params)

\* C24: when currentBuild is set and its done channel is closed, its result
\* is set, so the call that collects it dereferences a result; that call
\* clears currentBuild and a job that is no longer current never becomes
\* current again, so the result of one build goes to at most one caller.
C24_ResultCollectedOnce ==
    /\ [](currentBuild # 0 /\ jobs[currentBuild].pc = "closed"
             => jobs[currentBuild].result # NilResult)
    /\ [][/\ \A params \in BuildParams :
                collects(params) => /\ reply' = jobs[currentBuild].result
                                    /\ reply'.ParsedLog = currentBuild
                                    /\ currentBuild' = 0
          /\ \A j \in 1..Len(jobs) : currentBuild # j => currentBuild' # j]_vars

\* the result of a finished build has been handed out and a later call with
\* the same parameters has started the build anew
C24_Witness ==
    /\ Len(jobs) = 2
    /\ jobs[1].params = jobs[2].params
    /\ jobs[1].pc = "closed"
    /\ ~jobs[1].cancelled
    /\ currentBuild = 2

\* Scheduling for the completion goroutines: a build process ends (or is
\* killed) so that cmd.Wait returns, a goroutine that can run does run, and
\* a goroutine blocked in buildMu.Lock() gets the mutex once it is free
\* (sync.Mutex hands the lock to a starving waiter). Calls of Build are
\* under no obligation to happen.
SpecBuildFair ==
    /\ InitBuild
    /\ [][NextBuild]_vars
    /\ WF_vars(GoWait)
    /\ WF_vars(GoWriteLogs)
    /\ WF_vars(GoWriteKey)
    /\ SF_vars(GoLock)
    /\ WF_vars(GoFinish)

\* C25: Build calls and completion goroutines never deadlock: buildMu is
\* held only by a goroutine between its Lock and its deferred Unlock (every
\* return of the handler has released it), and the goroutine of every
\* started build eventually gets buildMu, closes the job's done channel and
\* releases the mutex.
C25_GoroutinesFinish ==
    /\ [](buildMu # 0 => jobs[buildMu].pc = "locked")
    /\ \A j \in 1..MaxBuilds :
          (Len(jobs) >= j) ~> (Len(jobs) >= j /\ jobs[j].pc = "closed" /\ buildMu # j)

\* the same, as long as the process is not stopped by the unsynchronized
\* cache writes of C16
C25_GoroutinesFinishUnlessCrashed ==
    /\ [](buildMu # 0 => jobs[buildMu].pc = "locked")
    /\ \A j \in 1..MaxBuilds :
          (Len(jobs) >= j)
             ~> (crashed \/ (Len(jobs) >= j /\ jobs[j].pc = "closed" /\ buildMu # j))

\* C26: every temporary osc configuration file a Build call has written is
\* removed: none is left of a call that returned without starting a build,
\* and none of a started build that has finished.
C26_ConfigFilesRemoved ==
    /\ 0 \notin configFiles
    /\ \A j \in 1..Len(jobs) : jobs[j].pc = "closed" => j \notin configFiles

\* ---------------------------------------------------------------------
\* Commit: uploads before the commit request, and the submitted file list
\* (src/internal/pkg/osc/commit.go)
\* ---------------------------------------------------------------------

\* this step sends the commit request
sendsCommit ==
    /\ Len(sent') = Len(sent) + 1
    /\ sent'[Len(sent')].op = "commit"

\* the server holds the content of every file of the working directory
uploaded(dir, remote) ==
    \A n \in localFiles(dir) : n \in DOMAIN remote /\ remote[n] = dir[n]

\* C27: the commit request is sent only after every new or changed local
\* file has been uploaded successfully; when an upload fails Commit returns
\* an error and sends no commit request.
C27_UploadsBeforeCommit ==
    [][/\ sendsCommit =>
            /\ commit.pc = "upload" /\ commit.toUpload = <<>>
            /\ uploaded(wd, server)
       /\ (commit.pc = "upload" /\ commitReply' # commitReply
              /\ commitReply' = "failed to upload file")
            => /\ sent' = sent
               /\ commit'.pc = "idle"]_vars

\* a commit request went out right after an upload, and in a later call an
\* upload failed
C27_Witness ==
    /\ \E i \in 1..Len(sent) - 1 : sent[i].op = "upload" /\ sent[i + 1].op = "commit"
    /\ sent[Len(sent)].op = "commit"
    /\ commitReply = "failed to upload file"
    /\ commit.pc = "idle"

\* no name occurs twice in the list
noDuplicates(seq) ==
    \A i, j \in 1..Len(seq) : seq[i] = seq[j] => i = j

\* C28: the file list of a commit request never has two entries with the
\* same file name, also when an earlier Commit has downloaded "_service:"
\* files into the working directory.
C28_NoDuplicateEntries ==
    \A i \in 1..Len(sent) :
        sent[i].op = "commit" => noDuplicates(sent[i].entries)

====
